---- MODULE Spec2Model ----
(***************************************************************************)
(* c2md: the one-hop crawler (c2md/crawl.py), the browser session and its  *)
(* per-page fetch (c2md/fetch.py) and the scopes that acquire a session    *)
(* (c2md/cli.py).                                                          *)
(*                                                                         *)
(* A URL is the record urlparse yields: scheme, netloc, path, query and    *)
(* fragment. A path is a sequence of tokens ("/" and segment names); a     *)
(* URL string is the token sequence urlunparse would print.                *)
(***************************************************************************)
EXTENDS Integers, Sequences, FiniteSets, TLC

\* ------------------------------------------------------------------ bounds
MaxPages == 3       \* max_pages ranges over 0..MaxPages
MaxLinks == 2       \* anchors in the seed page
MaxSubLinks == 1    \* anchors in a page other than the seed
MaxCalls == 4       \* method calls a client makes on one BrowserSession
MaxAnchors == 3     \* anchors in the page given to _extract_links on its own
MaxPath == 3        \* tokens in the path of a URL given to _normalize_url
MaxPieces == 3      \* pieces of Markdown in a text given to add_citations
MaxResults == 3     \* crawl results in a list that is sorted by date
MaxCrawled == 3     \* crawl results in a list that is refined (dedup, sort, limit)
MaxLines == 3       \* lines of a text given to fix_heading_linebreaks
MaxChunks == 4      \* chunks of a text given to the other normalizer passes

\* ------------------------------------------------------------ URL algebra
Url(s, n, p, q, f) == [scheme |-> s, netloc |-> n, path |-> p, query |-> q, fragment |-> f]

RECURSIVE RStripSlash(_)
\* str.rstrip("/"): drop every trailing "/"
RStripSlash(p) ==
    IF p # <<>> /\ p[Len(p)] = "/" THEN RStripSlash(SubSeq(p, 1, Len(p) - 1)) ELSE p

\* the printed form of a parsed URL
UrlStr(u) ==
    <<u.scheme, "://", u.netloc>> \o u.path
        \o (IF u.query = "" THEN <<>> ELSE <<"?", u.query>>)
        \o (IF u.fragment = "" THEN <<>> ELSE <<"#", u.fragment>>)

\* a mutation of _normalize_url: the query string is kept
NormalizeWithQuery(u) ==
    LET path == IF RStripSlash(u.path) = <<>> THEN <<"/">> ELSE RStripSlash(u.path)
    IN  <<u.scheme, "://", u.netloc>> \o path \o (IF u.query = "" THEN <<>> ELSE <<"?", u.query>>)

\* crawl.py _normalize_url: scheme://netloc + (path.rstrip("/") or "/")
_normalize_url(u) ==
    LET path == IF RStripSlash(u.path) = <<>> THEN <<"/">> ELSE RStripSlash(u.path)
    IN  <<u.scheme, "://", u.netloc>> \o path

\* an href of an anchor: kind is how the raw attribute starts
Href(k, u) == [kind |-> k, url |-> u]

\* href.startswith(("#", "javascript:", "mailto:", "tel:"))
StartsWithSkipped(h) == h.kind \in {"frag", "javascript", "mailto", "tel"}

\* urljoin(base_url, href): a path-absolute reference takes scheme and host
\* of the base, a bare fragment everything but the fragment; an href with a
\* scheme of its own is already absolute (urlparse lower-cases the scheme)
urljoin(base, h) ==
    CASE h.kind = "rel" -> Url(base.scheme, base.netloc, h.url.path, h.url.query, h.url.fragment)
      [] h.kind = "frag" -> Url(base.scheme, base.netloc, base.path, base.query, h.url.fragment)
      [] OTHER -> h.url

FilteredExt == {".jpg", ".jpeg", ".png", ".gif", ".svg", ".pdf", ".zip", ".tar", ".gz", ".css", ".js", ".xml"}

\* str.lower() on the extension tokens that occur in upper or mixed case
Lower(tok) ==
    CASE tok = ".JS" -> ".js"
      [] tok = ".Pdf" -> ".pdf"
      [] OTHER -> tok

\* a mutation of HasFilteredExt: the match is case-sensitive (re.I dropped)
HasFilteredExtCaseSensitive(p) == p # <<>> /\ p[Len(p)] \in FilteredExt

\* re.search(r"\.(jpg|...|xml)$", path, re.I): the path ends in a filtered extension
HasFilteredExt(p) == p # <<>> /\ Lower(p[Len(p)]) \in FilteredExt

\* the anchors that pass the filters of _extract_links, resolved, in document order
RECURSIVE AcceptedLinks(_, _, _)
AcceptedLinks(html, base_url, base_domain) ==
    IF html = <<>> THEN <<>>
    ELSE LET h == Head(html)
             absolute == urljoin(base_url, h)
             keep == /\ ~StartsWithSkipped(h)
                     /\ absolute.netloc = base_domain
                     /\ absolute.scheme \in {"http", "https"}
                     /\ ~HasFilteredExt(absolute.path)
         IN  (IF keep THEN <<absolute>> ELSE <<>>)
                 \o AcceptedLinks(Tail(html), base_url, base_domain)

\* a mutation of Unique: links are compared as written, not normalized
RECURSIVE UniqueRaw(_, _)
UniqueRaw(links, seen) ==
    IF links = <<>> THEN <<>>
    ELSE IF Head(links) \notin seen
         THEN <<Head(links)>> \o UniqueRaw(Tail(links), seen \cup {Head(links)})
         ELSE UniqueRaw(Tail(links), seen)

\* the dedup loop of _extract_links: keep the first link of each normalized URL
RECURSIVE Unique(_, _)
Unique(links, seen) ==
    IF links = <<>> THEN <<>>
    ELSE LET normalized == _normalize_url(Head(links))
         IN  IF normalized \notin seen
             THEN <<Head(links)>> \o Unique(Tail(links), seen \cup {normalized})
             ELSE Unique(Tail(links), seen)

\* crawl.py _extract_links
_extract_links(html, base_url, base_domain) ==
    Unique(AcceptedLinks(html, base_url, base_domain), {})

\* fnmatch.fnmatch(name, pat) on token sequences; "*" matches any run of tokens
RECURSIVE fnmatch(_, _)
fnmatch(name, pat) ==
    IF pat = <<>> THEN name = <<>>
    ELSE IF Head(pat) = "*"
         THEN \/ fnmatch(name, Tail(pat))
              \/ (name # <<>> /\ fnmatch(Tail(name), pat))
         ELSE name # <<>> /\ Head(name) = Head(pat) /\ fnmatch(Tail(name), Tail(pat))

RECURSIVE FilterPattern(_, _)
\* [u for u in discovered if fnmatch.fnmatch(u, url_pattern)]
FilterPattern(discovered, pat) ==
    IF discovered = <<>> THEN <<>>
    ELSE (IF fnmatch(UrlStr(Head(discovered)), pat) THEN <<Head(discovered)>> ELSE <<>>)
             \o FilterPattern(Tail(discovered), pat)

\* deep_crawl, lines 41-45: the candidate links of the seed page
Candidates(html, start, pat) ==
    IF pat # <<>> THEN FilterPattern(_extract_links(html, start, start.netloc), pat)
    ELSE _extract_links(html, start, start.netloc)


\* ------------------------------------------------------------- the inputs
Ex(p, f) == Url("https", "ex", p, "", f)

\* the anchors a page may hold
Hrefs ==
    { Href("rel", Ex(<<"/", "a">>, "")),
      Href("rel", Ex(<<"/", "a", "/">>, "f")),
      Href("rel", Ex(<<"/", "b">>, "")),
      Href("rel", Ex(<<"/">>, "")),
      Href("abs", Url("https", "other", <<"/", "a">>, "", "")),
      Href("mailto", Url("mailto", "", <<"x">>, "", "")) }

SeqUpTo(S, n) == UNION { [1..k -> S] : k \in 0..n }
Range(f) == { f[i] : i \in DOMAIN f }

SeedHtmls == SeqUpTo(Hrefs, MaxLinks)
\* the anchors of a page other than the seed lead to a page the seed does not link
SubHrefs == { Href("rel", Ex(<<"/", "c">>, "")) }
SubHtmls == SeqUpTo(SubHrefs, MaxSubLinks)

StartUrls == { Ex(<<>>, ""), Ex(<<"/", "a">>, "") }
Patterns == { <<>>, <<"*", "/", "a", "*">> }
Modes == {"markdown", "screenshot", "pdf", "archive"}
Statuses == {0, 200, 400}
\* playwright's Error and TimeoutError, both subclasses of Exception
ExcKinds == {"Error", "TimeoutError"}
\* an error that is no fetch or navigation failure: a defect of the program
ProgrammingErrors == {"AttributeError"}
\* the kinds that are subclasses of Exception
Exceptions == ExcKinds \cup ProgrammingErrors

\* -------------------------------------------------------------- the state
VARIABLES
    scope,          \* which scope acquires the session: "crawl", "single" or "usage"
    pc,             \* position of the acquiring scope
    start_url, max_pages, url_pattern, mode, headless, wait_for,
    _playwright, _browser, _context,   \* BrowserSession attributes: "None", "open" or "closed"
    openPages,      \* page handles created and not yet closed
    fpc,            \* position inside BrowserSession.fetch
    furl,           \* the url argument of the fetch in progress
    fout,           \* what the fetch in progress will return or raise
    fexit,          \* the statement of fetch at which the try block was left
    results, visited, discovered, idx,   \* locals of deep_crawl
    fetchLog,       \* history: every call of fetch, with its outcome
    origin,         \* history: origin[i] is the fetchLog index results[i] came from
    outcome,        \* the acquiring scope: "running", "returning"/"raising" (leaving the
                    \* with block), "returned"/"raised" (left)
    calls,          \* method calls made so far by a client of BrowserSession
    attempts,       \* history: every call of fetch_static, with its outcome
    console,        \* what console.print has printed
    fn, arg, ret    \* a function applied on its own: its name, argument and value

session == <<_playwright, _browser, _context, openPages>>
config == <<scope, start_url, max_pages, url_pattern, mode, headless, wait_for>>
frame == <<fpc, furl, fout, fexit>>
crawl == <<results, visited, discovered, idx>>
machine == <<pc, config, session, frame, crawl, fetchLog, origin, outcome>>
static == <<attempts, console>>
pure == <<fn, arg, ret>>
aside == <<calls, static, pure>>
vars == <<machine, aside>>

NoResult == [kind |-> "none"]
Result(h, u, s) == [kind |-> "result", html |-> h, url |-> u, status |-> s]
Raised(e) == [kind |-> "exc", exc |-> e]

\* cli.py: screenshot=(mode in ("screenshot", "archive")), pdf=(mode in ("pdf", "archive"))
screenshot == mode \in {"screenshot", "archive"}
pdf == mode \in {"pdf", "archive"}

Init ==
    /\ scope \in {"crawl", "single", "usage", "static"}
    \* cli.py:196/206: _fetch_single opens a session only if needs_browser
    /\ pc = IF scope = "static" THEN "static_call" ELSE "aenter_start"
    /\ start_url \in StartUrls
    /\ max_pages \in 0..MaxPages
    /\ url_pattern \in Patterns
    /\ mode \in Modes
    /\ headless \in BOOLEAN
    /\ wait_for \in BOOLEAN
    \* only a direct user of BrowserSession passes wait_for; the crawl options
    \* mean nothing to the single-page scopes
    /\ scope # "usage" => ~wait_for
    /\ scope # "crawl" => max_pages = 1 /\ url_pattern = <<>>
    \* the capture options and the crawl do not interact: the crawl runs with
    \* all of them (every exit path of fetch is then possible), the
    \* single-page scopes with every combination
    /\ scope = "crawl" => mode = "archive" /\ headless
    /\ scope = "static" => mode = "markdown" /\ headless
    /\ _playwright = "None" /\ _browser = "None" /\ _context = "None"
    /\ openPages = 0
    /\ fpc = "idle" /\ furl = start_url /\ fout = NoResult /\ fexit = "none"
    /\ results = <<>> /\ visited = {} /\ discovered = <<>> /\ idx = 0
    /\ fetchLog = <<>> /\ origin = <<>>
    /\ outcome = "running"
    /\ calls = 0
    /\ attempts = <<>> /\ console = <<>>
    /\ fn = "none" /\ arg = <<>> /\ ret = <<>>


\* ---------------------------------------------- BrowserSession.__aenter__
\* where control is once __aenter__ has returned the session
AfterEnter ==
    IF scope = "crawl" THEN "seed_call" ELSE IF scope = "api" THEN "client" ELSE "single_call"

\* where control is once __aenter__ has raised or __aexit__ has returned: a
\* scope of cli.py is over, a client holding the object may call it again
AfterLeave == IF scope = "api" THEN "client" ELSE "done"

\* fetch.py:47  self._playwright = await async_playwright().start()
\* A failure inside __aenter__ leaves the with statement before its body was
\* entered: Python does not call __aexit__ then.
EnterStart ==
    /\ pc = "aenter_start"
    /\ \/ /\ _playwright' = "open"
          /\ pc' = "aenter_launch"
          /\ UNCHANGED outcome
       \/ /\ pc' = AfterLeave
          /\ outcome' = "raised"
          /\ UNCHANGED _playwright
    /\ UNCHANGED <<aside, config, _browser, _context, openPages, frame, crawl, fetchLog, origin>>

\* fetch.py:48  self._browser = await self._playwright.chromium.launch(...)
EnterLaunch ==
    /\ pc = "aenter_launch"
    /\ \/ /\ _browser' = "open"
          /\ pc' = "aenter_context"
          /\ UNCHANGED outcome
       \/ /\ pc' = AfterLeave
          /\ outcome' = "raised"
          /\ UNCHANGED _browser
    /\ UNCHANGED <<aside, config, _playwright, _context, openPages, frame, crawl, fetchLog, origin>>

\* fetch.py:49-50  self._context = await self._browser.new_context(...); return self
EnterContext ==
    /\ pc = "aenter_context"
    /\ \/ /\ _context' = "open"
          /\ pc' = AfterEnter
          /\ UNCHANGED outcome
       \/ /\ pc' = AfterLeave
          /\ outcome' = "raised"
          /\ UNCHANGED _context
    /\ UNCHANGED <<aside, config, _playwright, _browser, openPages, frame, crawl, fetchLog, origin>>

\* ----------------------------------------------- BrowserSession.__aexit__
\* a mutation of ExitContext: the browser is closed first, the context never
ExitContextBrowserFirst ==
    /\ pc = "aexit_context"
    /\ _browser' = IF _browser # "None" THEN "closed" ELSE _browser
    /\ pc' = "aexit_browser"
    /\ UNCHANGED <<aside, config, _playwright, _context, openPages, frame, crawl, fetchLog, origin, outcome>>

\* fetch.py:53-54  if self._context: await self._context.close()
ExitContext ==
    /\ pc = "aexit_context"
    /\ _context' = IF _context # "None" THEN "closed" ELSE _context
    /\ pc' = "aexit_browser"
    /\ UNCHANGED <<aside, config, _playwright, _browser, openPages, frame, crawl, fetchLog, origin, outcome>>

\* a mutation of ExitBrowser: the engine is closed on a normal exit only
ExitBrowserOnSuccess ==
    /\ pc = "aexit_browser"
    /\ _browser' = IF _browser # "None" /\ outcome = "returning" THEN "closed" ELSE _browser
    /\ pc' = "aexit_playwright"
    /\ UNCHANGED <<aside, config, _playwright, _context, openPages, frame, crawl, fetchLog, origin, outcome>>

\* fetch.py:55-56  if self._browser: await self._browser.close()
ExitBrowser ==
    /\ pc = "aexit_browser"
    /\ _browser' = IF _browser # "None" THEN "closed" ELSE _browser
    /\ pc' = "aexit_playwright"
    /\ UNCHANGED <<aside, config, _playwright, _context, openPages, frame, crawl, fetchLog, origin, outcome>>

\* fetch.py:57-58  if self._playwright: await self._playwright.stop()
\* and the with statement is left: the body's value is returned or its
\* exception re-raised
ExitPlaywright ==
    /\ pc = "aexit_playwright"
    /\ _playwright' = IF _playwright # "None" THEN "closed" ELSE _playwright
    /\ pc' = AfterLeave
    /\ outcome' = IF outcome = "raising" THEN "raised" ELSE "returned"
    /\ UNCHANGED <<aside, config, _browser, _context, openPages, frame, crawl, fetchLog, origin>>

\* ------------------------------------------------- BrowserSession.fetch
\* the frame of fetch is gone once its caller has its value or its exception
PopFrame == fpc' = "idle" /\ fout' = NoResult /\ fexit' = "none" /\ UNCHANGED furl

\* the call: a new frame of fetch for url u
CallFetch(u) ==
    /\ fpc' = "new_page"
    /\ furl' = u
    /\ fout' = NoResult
    /\ fexit' = "none"
    /\ fetchLog' = Append(fetchLog, [url |-> u, out |-> NoResult])

\* fetch.py:68  page = await self._context.new_page()   (outside the try)
\* self._context is None until __aenter__ has set it (AttributeError on
\* None.new_page); a closed context refuses new_page with playwright's Error
NewPageFails(e) ==
    /\ fpc' = "raised"
    /\ fout' = Raised(e)
    /\ fexit' = "new_page"
    /\ fetchLog' = [fetchLog EXCEPT ![Len(fetchLog)].out = Raised(e)]
    /\ UNCHANGED openPages

FetchNewPage ==
    /\ fpc = "new_page"
    /\ CASE _context = "None" -> NewPageFails("AttributeError")
         [] _context = "closed" -> NewPageFails("Error")
         [] OTHER ->
              \/ /\ openPages' = openPages + 1
                 /\ fpc' = "body"
                 /\ UNCHANGED <<fout, fexit, fetchLog>>
              \/ NewPageFails("Error")
    /\ UNCHANGED <<aside, pc, config, _playwright, _browser, _context, furl, crawl, origin, outcome>>

\* the statements of the try block that can raise, given the arguments
ExitPaths ==
    {"goto", "content", "return"}
        \cup (IF wait_for THEN {"wait_for_selector"} ELSE {})
        \cup (IF screenshot THEN {"screenshot"} ELSE {})
        \cup (IF pdf /\ headless THEN {"pdf"} ELSE {})

\* the exceptions a statement of the try block raises
Raises(at) ==
    CASE at = "goto" -> ExcKinds \cup ProgrammingErrors
      [] at = "wait_for_selector" -> {"TimeoutError"}
      [] OTHER -> {"Error"}

\* the pages a fetch of u may be served
HtmlsFor(u) == IF scope = "crawl" /\ Len(fetchLog) = 1 THEN SeedHtmls ELSE SubHtmls

\* fetch.py:69-94  the try block: it raises at one of its awaits or builds
\* the FetchResult; status is 0 when goto returned no response
FetchBody ==
    /\ fpc = "body"
    /\ \E at \in ExitPaths :
          /\ fexit' = at
          /\ IF at = "return"
             THEN \E h \in HtmlsFor(furl), s \in Statuses : fout' = Result(h, furl, s)
             ELSE \E e \in Raises(at) : fout' = Raised(e)
    /\ fpc' = "finally"
    /\ UNCHANGED <<aside, pc, config, session, furl, crawl, fetchLog, origin, outcome>>

\* a mutation of FetchFinally: the page is closed on the normal path only
FetchFinallyLeak ==
    /\ fpc = "finally"
    /\ openPages' = IF fout.kind = "result" THEN openPages - 1 ELSE openPages
    /\ fpc' = IF fout.kind = "result" THEN "returned" ELSE "raised"
    /\ fetchLog' = [fetchLog EXCEPT ![Len(fetchLog)].out = fout]
    /\ UNCHANGED <<aside, pc, config, _playwright, _browser, _context, furl, fout, fexit, crawl, origin, outcome>>

\* fetch.py:95-96  finally: await page.close(), then the return or the raise
FetchFinally ==
    /\ fpc = "finally"
    /\ openPages' = openPages - 1
    /\ fpc' = IF fout.kind = "result" THEN "returned" ELSE "raised"
    /\ fetchLog' = [fetchLog EXCEPT ![Len(fetchLog)].out = fout]
    /\ UNCHANGED <<aside, pc, config, _playwright, _browser, _context, furl, fout, fexit, crawl, origin, outcome>>


\* ------------------------------------------------------------ deep_crawl
\* crawl.py:36  start_result = await session.fetch(start_url, ...)
SeedCall ==
    /\ pc = "seed_call"
    /\ CallFetch(start_url)
    /\ pc' = "seed_wait"
    /\ UNCHANGED <<aside, config, session, crawl, origin, outcome>>

\* a mutation of SeedReturn: the seed is kept only when its status is below 400
SeedReturnFiltered ==
    /\ pc = "seed_wait" /\ fpc = "returned"
    /\ results' = IF fout.status < 400 THEN <<fout>> ELSE <<>>
    /\ origin' = IF fout.status < 400 THEN <<Len(fetchLog)>> ELSE <<>>
    /\ visited' = {_normalize_url(start_url)}
    /\ discovered' = Candidates(fout.html, start_url, url_pattern)
    /\ idx' = 1
    /\ pc' = "loop"
    /\ PopFrame
    /\ UNCHANGED <<aside, config, session, fetchLog, outcome>>

\* crawl.py:37-45  results = [start_result]; visited = {normalized start};
\* discovered = the extracted links, filtered by the pattern
SeedReturn ==
    /\ pc = "seed_wait" /\ fpc = "returned"
    /\ results' = <<fout>>
    /\ origin' = <<Len(fetchLog)>>
    /\ visited' = {_normalize_url(start_url)}
    /\ discovered' = Candidates(fout.html, start_url, url_pattern)
    /\ idx' = 1
    /\ pc' = "loop"
    /\ PopFrame
    /\ UNCHANGED <<aside, config, session, fetchLog, outcome>>

\* a mutation of SeedRaise: the failure of the seed is swallowed and
\* deep_crawl returns its empty list
SeedRaiseSwallowed ==
    /\ pc = "seed_wait" /\ fpc = "raised"
    /\ pc' = "crawl_return"
    /\ PopFrame
    /\ UNCHANGED <<aside, config, session, crawl, fetchLog, origin, outcome>>

\* crawl.py:36  the seed fetch raised: nothing catches it in deep_crawl, and
\* the with statement of the caller runs __aexit__
SeedRaise ==
    /\ pc = "seed_wait" /\ fpc = "raised"
    /\ pc' = "aexit_context"
    /\ outcome' = "raising"
    /\ PopFrame
    /\ UNCHANGED <<aside, config, session, crawl, fetchLog, origin>>

\* a mutation of BudgetExhausted: one page too many
BudgetExhaustedOffByOne(res, max) == Len(res) > max

\* crawl.py:49  if len(results) >= max_pages: break
BudgetExhausted(res, max) == Len(res) >= max

\* a mutation of AlreadyVisited: the visited set is never consulted
AlreadyVisitedNever(normalized, seen) == FALSE

\* crawl.py:53  if normalized in visited: continue
AlreadyVisited(normalized, seen) == normalized \in seen

\* crawl.py:48-58  one turn of the loop up to the fetch: leave the loop when
\* the list or the budget is exhausted, skip a visited link, else mark the
\* link visited and fetch it
LoopStep ==
    /\ pc = "loop"
    /\ IF idx > Len(discovered) \/ BudgetExhausted(results, max_pages)
       THEN /\ pc' = "crawl_return"
            /\ UNCHANGED <<frame, crawl, fetchLog>>
       ELSE LET url == discovered[idx]
                normalized == _normalize_url(url)
            IN  IF AlreadyVisited(normalized, visited)
                THEN /\ idx' = idx + 1
                     /\ UNCHANGED <<pc, frame, results, visited, discovered, fetchLog>>
                ELSE /\ visited' = visited \cup {normalized}
                     /\ CallFetch(url)
                     /\ pc' = "link_wait"
                     /\ UNCHANGED <<results, discovered, idx>>
    /\ UNCHANGED <<aside, config, session, origin, outcome>>

\* a mutation of Accept: a page with an error status is kept as well
AcceptAny(result) == TRUE

\* crawl.py:59  if result.status < 400
Accept(result) == result.status < 400

\* a mutation of LinkReturn: the links of the fetched page are followed too
LinkReturnRecursive ==
    /\ pc = "link_wait" /\ fpc = "returned"
    /\ IF Accept(fout)
       THEN /\ results' = Append(results, fout)
            /\ origin' = Append(origin, Len(fetchLog))
       ELSE UNCHANGED <<results, origin>>
    /\ discovered' = discovered \o Candidates(fout.html, furl, url_pattern)
    /\ idx' = idx + 1
    /\ pc' = "loop"
    /\ PopFrame
    /\ UNCHANGED <<aside, config, session, visited, fetchLog, outcome>>

\* crawl.py:58-60  the fetch of a link returned: results.append(result) if
\* its status is below 400; next link
LinkReturn ==
    /\ pc = "link_wait" /\ fpc = "returned"
    /\ IF Accept(fout)
       THEN /\ results' = Append(results, fout)
            /\ origin' = Append(origin, Len(fetchLog))
       ELSE UNCHANGED <<results, origin>>
    /\ idx' = idx + 1
    /\ pc' = "loop"
    /\ PopFrame
    /\ UNCHANGED <<aside, config, session, visited, discovered, fetchLog, outcome>>

\* a mutation of Catches: a timeout is not caught
CatchesNoTimeout(exc) == exc \in Exceptions \ {"TimeoutError"}

\* crawl.py:61  except Exception
Catches(exc) == exc \in Exceptions

\* a mutation of LinkRaise: the failed fetch is put in results all the same
LinkRaiseCounted ==
    /\ pc = "link_wait" /\ fpc = "raised"
    /\ results' = Append(results, fout)
    /\ origin' = Append(origin, Len(fetchLog))
    /\ idx' = idx + 1
    /\ pc' = "loop"
    /\ PopFrame
    /\ UNCHANGED <<aside, config, session, visited, discovered, fetchLog, outcome>>

\* crawl.py:57-62  the fetch of a link raised: continue if the except clause
\* catches it, else the exception leaves deep_crawl
LinkRaise ==
    /\ pc = "link_wait" /\ fpc = "raised"
    /\ IF Catches(fout.exc)
       THEN /\ idx' = idx + 1
            /\ pc' = "loop"
            /\ UNCHANGED outcome
       ELSE /\ pc' = "aexit_context"
            /\ outcome' = "raising"
            /\ UNCHANGED idx
    /\ PopFrame
    /\ UNCHANGED <<aside, config, session, results, visited, discovered, fetchLog, origin>>

\* crawl.py:64 and cli.py:388  return results, out of the with statement
CrawlReturn ==
    /\ pc = "crawl_return"
    /\ pc' = "aexit_context"
    /\ outcome' = "returning"
    /\ UNCHANGED <<aside, config, session, frame, crawl, fetchLog, origin>>

\* ------------------------------------ _fetch_single and the class's usage
\* cli.py:201  return await session.fetch(url, ...)   (fetch.py:27 likewise)
SingleCall ==
    /\ pc = "single_call"
    /\ CallFetch(start_url)
    /\ pc' = "single_wait"
    /\ UNCHANGED <<aside, config, session, crawl, origin, outcome>>

\* cli.py:198-205  the fetch returned or raised: the with statement is left
SingleDone ==
    /\ pc = "single_wait" /\ fpc \in {"returned", "raised"}
    /\ pc' = "aexit_context"
    /\ outcome' = IF fpc = "returned" THEN "returning" ELSE "raising"
    /\ PopFrame
    /\ UNCHANGED <<aside, config, session, crawl, fetchLog, origin>>

\* ------------------------------- _fetch_single without a browser (static)
\* what httpx raises: a ConnectError whose text names the certificate
\* failure, another ConnectError, or an error that is no ConnectError
StaticExcs ==
    { [type |-> "ConnectError", cert |-> TRUE],
      [type |-> "ConnectError", cert |-> FALSE],
      [type |-> "ReadTimeout", cert |-> FALSE] }

\* fetch.py:119-131  fetch_static returns a FetchResult or raises
StaticOutcomes ==
    { Result(<<>>, start_url, s) : s \in Statuses } \cup { Raised(e) : e \in StaticExcs }

\* a mutation of IsCertFailure: every ConnectError is retried
IsCertFailureAnyConnect(e) == e.type = "ConnectError"

\* cli.py:210-211  except httpx.ConnectError as e: if "CERTIFICATE_VERIFY_FAILED" in str(e)
IsCertFailure(e) == e.type = "ConnectError" /\ e.cert

\* cli.py:209  return await fetch_static(url, timeout=timeout): verify_ssl defaults to True
StaticCall ==
    /\ pc = "static_call"
    /\ attempts' = Append(attempts, [url |-> start_url, verify_ssl |-> TRUE, out |-> NoResult])
    /\ pc' = "static_wait"
    /\ UNCHANGED <<config, session, frame, crawl, fetchLog, origin, outcome, calls, console, pure>>

\* cli.py:208-217  the first fetch_static returned (its value is returned) or
\* raised: a certificate failure prints the warning and goes on to the retry,
\* anything else is raised to the caller
StaticFirstDone ==
    /\ pc = "static_wait"
    /\ \E out \in StaticOutcomes :
          /\ attempts' = [attempts EXCEPT ![Len(attempts)].out = out]
          /\ IF out.kind = "result"
             THEN pc' = "done" /\ outcome' = "returned" /\ UNCHANGED console
             ELSE IF IsCertFailure(out.exc)
                  THEN /\ console' = Append(console, [msg |-> "SSL verification failed, retrying without verification",
                                                      after |-> Len(attempts)])
                       /\ pc' = "static_retry_call"
                       /\ UNCHANGED outcome
                  ELSE pc' = "done" /\ outcome' = "raised" /\ UNCHANGED console
    /\ UNCHANGED <<config, session, frame, crawl, fetchLog, origin, calls, pure>>

\* cli.py:216  return await fetch_static(url, timeout=timeout, verify_ssl=False)
StaticRetryCall ==
    /\ pc = "static_retry_call"
    /\ attempts' = Append(attempts, [url |-> start_url, verify_ssl |-> FALSE, out |-> NoResult])
    /\ pc' = "static_retry_wait"
    /\ UNCHANGED <<config, session, frame, crawl, fetchLog, origin, outcome, calls, console, pure>>

\* cli.py:216  the retry is not inside a try: its value or its exception is
\* the caller's
StaticRetryDone ==
    /\ pc = "static_retry_wait"
    /\ \E out \in StaticOutcomes :
          /\ attempts' = [attempts EXCEPT ![Len(attempts)].out = out]
          /\ outcome' = IF out.kind = "result" THEN "returned" ELSE "raised"
    /\ pc' = "done"
    /\ UNCHANGED <<config, session, frame, crawl, fetchLog, origin, calls, console, pure>>

\* ------------------------------------ a client holding a BrowserSession
\* The class does not restrict the order of its methods: a client may call
\* __aenter__, fetch and __aexit__ in any order, MaxCalls times in all.
ApiAenter ==
    /\ pc = "client" /\ calls < MaxCalls
    /\ calls' = calls + 1
    /\ pc' = "aenter_start"
    /\ outcome' = "running"
    /\ UNCHANGED <<config, session, frame, crawl, fetchLog, origin, static, pure>>

ApiAexit ==
    /\ pc = "client" /\ calls < MaxCalls
    /\ calls' = calls + 1
    /\ pc' = "aexit_context"
    /\ outcome' = "returning"
    /\ UNCHANGED <<config, session, frame, crawl, fetchLog, origin, static, pure>>

ApiFetch ==
    /\ pc = "client" /\ calls < MaxCalls
    /\ calls' = calls + 1
    /\ CallFetch(start_url)
    /\ pc' = "api_wait"
    /\ outcome' = "running"
    /\ UNCHANGED <<config, session, crawl, origin, static, pure>>

ApiFetchDone ==
    /\ pc = "api_wait" /\ fpc \in {"returned", "raised"}
    /\ pc' = "client"
    /\ outcome' = fpc
    /\ PopFrame
    /\ UNCHANGED <<config, session, crawl, fetchLog, origin, aside>>

InitApi ==
    /\ scope = "api"
    /\ pc = "client"
    /\ start_url \in StartUrls
    /\ max_pages = 1 /\ url_pattern = <<>>
    /\ mode \in Modes
    /\ headless = TRUE /\ wait_for = FALSE
    /\ _playwright = "None" /\ _browser = "None" /\ _context = "None"
    /\ openPages = 0
    /\ fpc = "idle" /\ furl = start_url /\ fout = NoResult /\ fexit = "none"
    /\ results = <<>> /\ visited = {} /\ discovered = <<>> /\ idx = 0
    /\ fetchLog = <<>> /\ origin = <<>>
    /\ outcome = "running"
    /\ calls = 0
    /\ attempts = <<>> /\ console = <<>>
    /\ fn = "none" /\ arg = <<>> /\ ret = <<>>

\* ------------------------------------------------------ the specification
Next ==
    \/ EnterStart \/ EnterLaunch \/ EnterContext
    \/ ExitContext \/ ExitBrowser \/ ExitPlaywright
    \/ FetchNewPage \/ FetchBody \/ FetchFinally
    \/ SeedCall \/ SeedReturn \/ SeedRaise
    \/ LoopStep \/ LinkReturn \/ LinkRaise \/ CrawlReturn
    \/ SingleCall \/ SingleDone
    \/ StaticCall \/ StaticFirstDone \/ StaticRetryCall \/ StaticRetryDone

Spec == Init /\ [][Next]_vars

\* the crawl of the site's root alone, with no budget, a budget of one page or
\* the largest budget, and with its steps taken as long as one is possible: the
\* event loop runs the coroutine and every await of a fetch comes back
InitCrawl ==
    /\ Init /\ scope = "crawl" /\ start_url = Ex(<<>>, "")
    /\ max_pages \in {0, 1, MaxPages}

\* the steps of the crawl and of its session other than SeedReturn
CrawlSteps ==
    \/ EnterStart \/ EnterLaunch \/ EnterContext
    \/ ExitContext \/ ExitBrowser \/ ExitPlaywright
    \/ FetchNewPage \/ FetchBody \/ FetchFinally
    \/ SeedCall \/ SeedRaise
    \/ LoopStep \/ LinkReturn \/ LinkRaise \/ CrawlReturn

NextCrawl == CrawlSteps \/ SeedReturn

\* the step from the returned seed fetch into the loop: among the steps of
\* NextCrawl it is SeedReturn
SeedReturned == pc = "seed_wait" /\ fpc = "returned" /\ pc' = "loop"

SpecCrawlLive ==
    InitCrawl /\ [][NextCrawl]_vars /\ WF_vars(CrawlSteps) /\ WF_pc(SeedReturned)

NextApi ==
    \/ ApiAenter \/ ApiAexit \/ ApiFetch \/ ApiFetchDone
    \/ EnterStart \/ EnterLaunch \/ EnterContext
    \/ ExitContext \/ ExitBrowser \/ ExitPlaywright
    \/ FetchNewPage \/ FetchBody \/ FetchFinally

SpecApi == InitApi /\ [][NextApi]_vars


\* ------------------------------------------- functions applied on their own
\* the crawl, the session and the static fetch are not running
MachineOff ==
    /\ scope = "none" /\ pc = "off"
    /\ start_url = Ex(<<>>, "") /\ max_pages = 1 /\ url_pattern = <<>>
    /\ mode = "markdown" /\ headless = TRUE /\ wait_for = FALSE
    /\ _playwright = "None" /\ _browser = "None" /\ _context = "None"
    /\ openPages = 0
    /\ fpc = "idle" /\ furl = start_url /\ fout = NoResult /\ fexit = "none"
    /\ results = <<>> /\ visited = {} /\ discovered = <<>> /\ idx = 0
    /\ fetchLog = <<>> /\ origin = <<>>
    /\ outcome = "running"
    /\ calls = 0
    /\ attempts = <<>> /\ console = <<>>

Pending == [done |-> FALSE]
Value(v) == [done |-> TRUE, val |-> v]

\* the function fn returns v
Return(v) ==
    /\ ret = Pending
    /\ ret' = Value(v)
    /\ UNCHANGED <<machine, calls, static, fn, arg>>

\* the anchors of a page given to _extract_links
LinkHrefs ==
    { Href("rel", Ex(<<"/", "page">>, "")),
      Href("rel", Ex(<<"/", "page", "/">>, "")),
      Href("rel", Url("", "", <<"/", "b">>, "q", "")),
      Href("rel", Ex(<<"/", "c", ".JS">>, "")),
      Href("rel", Ex(<<"/", "c", ".pdf">>, "")),
      Href("abs", Url("https", "other", <<"/", "page">>, "", "")),
      Href("abs", Url("ftp", "ex", <<"/", "page">>, "", "")),
      Href("abs", Url("http", "ex", <<"/", "page">>, "", "")),
      Href("abs", Url("javascript", "", <<"void(0)">>, "", "")),
      Href("frag", Url("", "", <<>>, "", "top")),
      Href("javascript", Url("javascript", "", <<"void(0)">>, "", "")),
      Href("mailto", Url("mailto", "", <<"x@ex">>, "", "")),
      Href("tel", Url("tel", "", <<"123">>, "", "")) }

\* the URLs given to _normalize_url: absolute http(s) URLs, whose path is
\* empty or starts with "/"
NormPaths == { p \in SeqUpTo({"/", "a", "b"}, MaxPath) : p = <<>> \/ p[1] = "/" }
NormUrls ==
    { Url(sc, n, p, qf[1], qf[2]) :
        sc \in {"http", "https"}, n \in {"ex", "other"}, p \in NormPaths,
        qf \in {<<"", "">>, <<"q", "">>, <<"", "f">>} }

InitLinks ==
    /\ MachineOff
    /\ fn \in {"_extract_links", "_normalize_url"}
    /\ IF fn = "_extract_links"
       THEN arg \in [html : SeqUpTo(LinkHrefs, MaxAnchors),
                     base_url : {Ex(<<>>, ""), Ex(<<"/", "page">>, "")},
                     base_domain : {"ex", "other", ""}]
       ELSE arg \in [u : NormUrls, v : NormUrls]
    /\ ret = Pending

\* crawl.py:67-106  links = _extract_links(html, base_url, base_domain)
ApplyExtractLinks ==
    /\ fn = "_extract_links"
    /\ Return(_extract_links(arg.html, arg.base_url, arg.base_domain))

\* crawl.py:109-113  _normalize_url of each of two URLs, as the visited test
\* (crawl.py:52-53) and the dedup loop (crawl.py:101-102) compare them
ApplyNormalizeUrl ==
    /\ fn = "_normalize_url"
    /\ Return(<<_normalize_url(arg.u), _normalize_url(arg.v)>>)

NextLinks == ApplyExtractLinks \/ ApplyNormalizeUrl

SpecLinks == InitLinks /\ [][NextLinks]_vars

\* -------------------------------------------------------- add_citations
\* A Markdown text is a sequence of characters; a URL or a word that the
\* pattern treats like any other character is one token.

\* the smallest index >= from of tok in md, 0 if there is none
RECURSIVE IndexFrom(_, _, _)
IndexFrom(md, from, tok) ==
    IF from > Len(md) THEN 0
    ELSE IF md[from] = tok THEN from ELSE IndexFrom(md, from + 1, tok)

\* citations.py:47  (?<!!)\[([^\]]*)\]\(([^)]+)\)  tried at position i: the
\* text runs to the first "]", which "(" must follow, and the url, not empty,
\* runs to the first ")"
LinkMatch(md, i) ==
    LET j == IndexFrom(md, i + 1, "]")
        k == IF j = 0 THEN 0 ELSE IndexFrom(md, j + 2, ")")
        ok == /\ md[i] = "["
              /\ (i = 1 \/ md[i - 1] # "!")
              /\ j # 0 /\ j + 1 <= Len(md) /\ md[j + 1] = "("
              /\ k # 0 /\ k > j + 2
    IN  [ok |-> ok, text |-> IF ok THEN SubSeq(md, i + 1, j - 1) ELSE <<>>,
         url |-> IF ok THEN SubSeq(md, j + 2, k - 1) ELSE <<>>, end |-> k]

Digits == <<"0", "1", "2", "3", "4", "5", "6", "7", "8", "9">>

RECURSIVE Str(_)
\* str(n) of a natural number
Str(n) == IF n < 10 THEN <<Digits[n + 1]>> ELSE Str(n \div 10) \o <<Digits[(n % 10) + 1]>>

\* text.strip() is not empty
HasVisibleText(text) == \E i \in DOMAIN text : text[i] \notin {" ", "\n"}

\* a mutation of InDict: no URL is ever found in the dict
InDictNever(urls, url) == FALSE

\* citations.py:36  url in urls   (urls: the dict, as its items in insertion order)
InDict(urls, url) == \E i \in DOMAIN urls : urls[i].url = url

\* citations.py:38  urls[url] = counter
DictSet(urls, url, n) ==
    IF \E i \in DOMAIN urls : urls[i].url = url
    THEN [i \in DOMAIN urls |-> IF urls[i].url = url THEN [url |-> url, num |-> n] ELSE urls[i]]
    ELSE Append(urls, [url |-> url, num |-> n])

\* citations.py:40  urls[url]
DictGet(urls, url) == (CHOOSE e \in Range(urls) : e.url = url).num

\* citations.py:27-44  replace_link on one match, in the state st of the
\* substitution: the output so far, the dict, the counter
replace_link(st, mt, whole) ==
    IF mt.url[1] = "#"
    THEN [st EXCEPT !.out = st.out \o whole]
    ELSE LET known == InDict(st.urls, mt.url)
             counter == IF known THEN st.counter ELSE st.counter + 1
             urls == IF known THEN st.urls ELSE DictSet(st.urls, mt.url, counter)
             ref_num == DictGet(urls, mt.url)
             marker == <<"[">> \o Str(ref_num) \o <<"]">>
         IN  [out |-> st.out \o (IF HasVisibleText(mt.text) THEN mt.text \o <<" ">> \o marker ELSE marker),
              urls |-> urls,
              counter |-> counter,
              marks |-> Append(st.marks, [url |-> mt.url, num |-> ref_num])]

RECURSIVE Sub(_, _, _)
\* citations.py:48  re.sub(pattern, replace_link, markdown): matches are taken
\* left to right and do not overlap
Sub(md, i, st) ==
    IF i > Len(md) THEN st
    ELSE LET mt == LinkMatch(md, i)
         IN  IF mt.ok
             THEN Sub(md, mt.end + 1, replace_link(st, mt, SubSeq(md, i, mt.end)))
             ELSE Sub(md, i + 1, [st EXCEPT !.out = Append(st.out, md[i])])

RECURSIVE SortedByNum(_)
\* citations.py:55  sorted(urls.items(), key=lambda x: x[1])
SortedByNum(items) ==
    IF items = <<>> THEN <<>>
    ELSE LET least == CHOOSE i \in DOMAIN items :
                          /\ \A j \in DOMAIN items : items[i].num <= items[j].num
                          /\ \A j \in 1..(i - 1) : items[j].num # items[i].num
         IN  <<items[least]>>
                 \o SortedByNum(SubSeq(items, 1, least - 1) \o SubSeq(items, least + 1, Len(items)))

RECURSIVE RefLines(_)
\* citations.py:54-58  "\n".join(["", "## References", ""] + the "[num] url" lines)
RefLines(items) ==
    IF items = <<>> THEN <<>>
    ELSE <<"\n", "[">> \o Str(items[1].num) \o <<"]", " ">> \o items[1].url \o RefLines(Tail(items))

References(urls) == <<"\n", "## References", "\n">> \o RefLines(SortedByNum(urls))

\* citations.py:15-59  add_citations; marks lists, for every link replaced,
\* its url and the number put in the text
add_citations(md) ==
    IF md = <<>> THEN [cited |-> <<>>, references |-> <<>>, marks |-> <<>>]
    ELSE LET st == Sub(md, 1, [out |-> <<>>, urls |-> <<>>, counter |-> 0, marks |-> <<>>])
         IN  IF st.urls = <<>>
             THEN [cited |-> md, references |-> <<>>, marks |-> <<>>]
             ELSE [cited |-> st.out, references |-> References(st.urls), marks |-> st.marks]

\* the pieces texts are made of
ImagePiece == <<"!", "[", "a", "]", "(", "i", ")">>
ImageLinkPiece == <<"[", "l", "]", "(", "i", ")">>
Pieces ==
    { <<"[", "a", "]", "(", "u", ")">>,
      <<"[", "b", "]", "(", "v", ")">>,
      <<"[", "c", "]", "(", "u", ")">>,
      <<"[", " ", "]", "(", "v", ")">>,
      <<"[", "a", "]", "(", "#", "h", ")">>,
      ImagePiece,
      ImageLinkPiece,
      <<"(", "v", ")">>,
      <<"]", "(", "v", ")">>,
      <<"[">>,
      <<"x", " ">> }

RECURSIVE Flatten(_)
Flatten(ps) == IF ps = <<>> THEN <<>> ELSE Head(ps) \o Flatten(Tail(ps))

Markdowns == { Flatten(ps) : ps \in SeqUpTo(Pieces, MaxPieces) }

InitCite ==
    /\ MachineOff
    /\ fn = "add_citations"
    /\ arg \in Markdowns
    /\ ret = Pending

\* cited, references = add_citations(markdown)
ApplyAddCitations ==
    /\ fn = "add_citations"
    /\ Return(add_citations(arg))

\* add_citations is called again, on the cited text it returned
ApplyAddCitationsAgain ==
    /\ fn = "add_citations" /\ ret.done
    /\ fn' = "add_citations again"
    /\ arg' = ret.val.cited
    /\ ret' = Value(add_citations(ret.val.cited))
    /\ UNCHANGED <<machine, calls, static>>

NextCite == ApplyAddCitations \/ ApplyAddCitationsAgain

SpecCite == InitCite /\ [][NextCite]_vars

\* ------------------------------------------------- sort_results_by_date
\* A date "YYYY-MM-DD" is <<year, month, day>>: strings of this form compare
\* as these triples do.  A url is its rank in the order of strings.  None is
\* the absent date.
None == <<>>

Dates == {<<2024, 1, 5>>, <<2025, 3, 1>>}

\* a < b on tuples of numbers, as Python compares tuples and strings
RECURSIVE TupleLess(_, _)
TupleLess(a, b) ==
    IF a = <<>> THEN b # <<>>
    ELSE IF b = <<>> THEN FALSE
    ELSE IF Head(a) # Head(b) THEN Head(a) < Head(b)
    ELSE TupleLess(Tail(a), Tail(b))

\* extract.py:143-147  get_sort_key: (date, url), the date of an item with
\* none being "9999-99-99" if descending else "0000-00-00"
get_sort_key(item, descending) ==
    IF item.published_date = None
    THEN (IF descending THEN <<9999, 99, 99>> ELSE <<0, 0, 0>>) \o <<item.url>>
    ELSE item.published_date \o <<item.url>>

RECURSIVE sorted(_, _)
\* sorted(results, key=get_sort_key, reverse=descending): a stable sort,
\* items of equal key keep their order also when reverse is true
sorted(items, descending) ==
    IF items = <<>> THEN <<>>
    ELSE LET key(i) == get_sort_key(items[i], descending)
             before(i, j) == IF descending THEN TupleLess(key(j), key(i))
                                           ELSE TupleLess(key(i), key(j))
             first == CHOOSE i \in DOMAIN items :
                          /\ \A j \in DOMAIN items : ~before(j, i)
                          /\ \A j \in 1..(i - 1) : before(i, j)
         IN  <<items[first]>>
                 \o sorted(SubSeq(items, 1, first - 1) \o SubSeq(items, first + 1, Len(items)),
                           descending)

\* extract.py:138-149
sort_results_by_date(rs, descending) == sorted(rs, descending)

\* cli.py:424-435  the sort-by-date step of _run_deep_crawl: results are
\* tagged with the date found in their html, sorted, and untagged
SortByDateStep(rs) ==
    IF Len(rs) > 1
    THEN LET tagged == [i \in DOMAIN rs |->
                           [result |-> rs[i], published_date |-> rs[i].date, url |-> rs[i].url]]
             ordered == sort_results_by_date(tagged, TRUE)
         IN  [i \in DOMAIN ordered |-> ordered[i].result]
    ELSE rs

\* crawl results: the date its html carries, its url, and its place in the
\* list, which tells results of equal date and url apart
Pages == [date : Dates \cup {None}, url : 1..2]
ResultLists ==
    { [i \in DOMAIN ps |-> [date |-> ps[i].date, url |-> ps[i].url, n |-> i]] :
          ps \in SeqUpTo(Pages, MaxResults) }

InitSort ==
    /\ MachineOff
    /\ ret = Pending
    /\ \/ /\ fn = "sort_results_by_date"
          /\ arg \in { [results |-> [i \in DOMAIN rs |->
                                        [result |-> rs[i], published_date |-> rs[i].date,
                                         url |-> rs[i].url]],
                        descending |-> d] : rs \in ResultLists, d \in BOOLEAN }
       \/ /\ fn = "sort_by_date"
          /\ arg \in ResultLists

ApplySortResultsByDate ==
    /\ fn = "sort_results_by_date"
    /\ Return(sort_results_by_date(arg.results, arg.descending))

ApplySortByDateStep ==
    /\ fn = "sort_by_date"
    /\ Return(SortByDateStep(arg))

NextSort == ApplySortResultsByDate \/ ApplySortByDateStep

SpecSort == InitSort /\ [][NextSort]_vars

\* ------------------------------------- _run_deep_crawl: dedup, sort, limit
\* The list returned by deep_crawl holds at least the seed's result.
\* A crawl result carries here the date its html holds, its url, the body of
\* the page, and its place n in the list returned by the crawl.  The
\* boilerplate of a page is that of its site and is named by the url.

\* convert.py:10  html_to_markdown(r.html, r.url, strip_boilerplate): the
\* body, preceded by the boilerplate when it is not stripped
html_to_markdown(r, strip_boilerplate) ==
    IF strip_boilerplate THEN <<r.body>> ELSE <<r.url, r.body>>

RECURSIVE Digest(_, _)
\* a 64-bit state, as its 8 bytes, absorbs the bytes one by one: h * 256 + b
\* modulo 2^64 drops the first byte of h and appends b
Digest(bytes, h) ==
    IF bytes = <<>> THEN h ELSE Digest(Tail(bytes), Append(Tail(h), Head(bytes)))

\* cli.py:415  xxhash.xxh64(markdown.encode()).hexdigest(): a 64-bit value
\* that is a function of the bytes alone
xxh64(markdown) == Digest(markdown, <<0, 0, 0, 0, 0, 0, 0, Len(markdown)>>)

\* a mutation of Fresh: every fingerprint counts as new
FreshAlways(seen, fp) == TRUE

\* cli.py:416  fp not in seen
Fresh(seen, fp) == fp \notin seen

RECURSIVE DedupLoop(_, _, _, _)
\* cli.py:411-418  the loop over results, with seen and unique
DedupLoop(rs, raw, seen, unique) ==
    IF rs = <<>> THEN unique
    ELSE LET r == Head(rs)
             fp == xxh64(html_to_markdown(r, ~raw))
         IN  IF Fresh(seen, fp)
             THEN DedupLoop(Tail(rs), raw, seen \cup {fp}, Append(unique, r))
             ELSE DedupLoop(Tail(rs), raw, seen, unique)

\* cli.py:409-419
DedupStep(rs, dedupe, raw) ==
    IF dedupe /\ Len(rs) > 1 THEN DedupLoop(rs, raw, {}, <<>>) ELSE rs

\* results[:n] of Python: a negative n counts from the end
SliceTo(rs, n) ==
    LET stop == IF n >= 0 THEN (IF n < Len(rs) THEN n ELSE Len(rs))
                ELSE (IF Len(rs) + n > 0 THEN Len(rs) + n ELSE 0)
    IN  SubSeq(rs, 1, stop)

\* cli.py:445-448  limit is <<>> for None and <<N>> for --limit N; 0 is falsy
LimitStep(rs, limit) ==
    IF limit # <<>> /\ limit[1] # 0 /\ Len(rs) > limit[1] THEN SliceTo(rs, limit[1]) ELSE rs

CrawledPages == [date : {None, <<2024, 1, 5>>}, url : 1..2, body : 1..2]
CrawledLists ==
    { [i \in DOMAIN ps |-> [date |-> ps[i].date, url |-> ps[i].url, body |-> ps[i].body, n |-> i]] :
          ps \in SeqUpTo(CrawledPages, MaxCrawled) \ {<<>>} }

\* --limit: absent, or an int (click puts no range on it, cli.py:55)
Limits == {<<>>, <<-1>>, <<0>>, <<1>>, <<2>>}

Stage(name, rs, ordered) ==
    [done |-> name = "process", stage |-> name, results |-> rs, ordered |-> ordered]

\* cli.py:403  results = asyncio.run(_crawl())
InitRefine ==
    /\ MachineOff
    /\ fn = "_run_deep_crawl"
    /\ arg \in [results : CrawledLists, dedupe : BOOLEAN, sort_by_date : BOOLEAN,
                raw : BOOLEAN, limit : Limits]
    /\ ret = Stage("dedupe", arg.results, <<>>)

Refine(from, to, rs, ordered) ==
    /\ fn = "_run_deep_crawl" /\ ret.stage = from
    /\ ret' = Stage(to, rs, ordered)
    /\ UNCHANGED <<machine, calls, static, fn, arg>>

\* cli.py:408-421
RefineDedupe ==
    Refine("dedupe", "sort", DedupStep(ret.results, arg.dedupe, arg.raw), <<>>)

\* cli.py:423-441
RefineSort ==
    LET rs == IF arg.sort_by_date THEN SortByDateStep(ret.results) ELSE ret.results
    IN  Refine("sort", "limit", rs, rs)

\* cli.py:444-448
RefineLimit ==
    Refine("limit", "process", LimitStep(ret.results, arg.limit), ret.ordered)

NextRefine == RefineDedupe \/ RefineSort \/ RefineLimit

SpecRefine == InitRefine /\ [][NextRefine]_vars

\* ------------------------------------------------------- _postprocess
\* A text is a sequence of characters.

IsSpace(c) == c \in {" ", "\n", "\t"}
IsDigit(c) == c \in {"1", "2"}
\* \w of the patterns
IsWord(c) == c \in {"a", "b", "c", "d", "x"} \/ IsDigit(c)

\* the character U+0060, which a string of this notation cannot hold
Backtick == "backtick"

RECURSIVE Split(_, _)
\* markdown.split(sep)
Split(md, sep) ==
    LET k == IndexFrom(md, 1, sep)
    IN  IF k = 0 THEN <<md>>
        ELSE <<SubSeq(md, 1, k - 1)>> \o Split(SubSeq(md, k + 1, Len(md)), sep)

RECURSIVE Join(_, _)
\* sep.join(parts)
Join(sep, parts) ==
    IF parts = <<>> THEN <<>>
    ELSE IF Len(parts) = 1 THEN parts[1]
    ELSE parts[1] \o sep \o Join(sep, Tail(parts))

RECURSIVE LStrip(_)
LStrip(line) == IF line # <<>> /\ IsSpace(Head(line)) THEN LStrip(Tail(line)) ELSE line

RECURSIVE RStrip(_)
RStrip(line) ==
    IF line # <<>> /\ IsSpace(line[Len(line)]) THEN RStrip(SubSeq(line, 1, Len(line) - 1)) ELSE line

\* line.strip()
Strip(line) == RStrip(LStrip(line))

\* len(line.split()): the runs of characters that are not white space
WordCount(line) ==
    Cardinality({ i \in DOMAIN line : ~IsSpace(line[i]) /\ (i = 1 \/ IsSpace(line[i - 1])) })

StartsWith(line, prefix) ==
    Len(line) >= Len(prefix) /\ SubSeq(line, 1, Len(prefix)) = prefix

\* _postprocess.py:30  re.match(r"^(#{1,6})\s*$", line): the marker, or <<>>
HeadingMarker(line) ==
    LET bare == RStrip(line)
    IN  IF bare # <<>> /\ Len(bare) <= 6 /\ (\A i \in DOMAIN bare : bare[i] = "#") /\ "\n" \notin Range(line)
        THEN bare ELSE <<>>

\* a mutation of Breaks: a line of more than three words does not stop the
\* collection
BreaksNotOnLong(next_line) ==
    \/ next_line = <<>>
    \/ \E c \in {"#", "-", "*", "[", "|", ">"} : StartsWith(next_line, <<c>>)
    \/ StartsWith(next_line, <<Backtick, Backtick, Backtick>>)

\* _postprocess.py:38-48  the stripped line ends the collection of fragments
Breaks(next_line) ==
    \/ next_line = <<>>
    \/ \E c \in {"#", "-", "*", "[", "|", ">"} : StartsWith(next_line, <<c>>)
    \/ StartsWith(next_line, <<Backtick, Backtick, Backtick>>)
    \/ WordCount(next_line) > 3

RECURSIVE Fragments(_, _)
\* _postprocess.py:34-50  the inner loop, from line j on
Fragments(lines, j) ==
    IF j > Len(lines) \/ Breaks(Strip(lines[j])) THEN <<>>
    ELSE <<Strip(lines[j])>> \o Fragments(lines, j + 1)

\* a mutation of CollapsedLine: the marker is left out
CollapsedLineNoLevel(level, fragments) == Join(<<" ">>, fragments)

\* _postprocess.py:53  f"{level} {' '.join(fragments)}"
CollapsedLine(level, fragments) == level \o <<" ">> \o Join(<<" ">>, fragments)

RECURSIVE HeadingLoop(_, _, _)
\* _postprocess.py:27-59  the outer loop, at line i with result
HeadingLoop(lines, i, result) ==
    IF i > Len(lines) THEN result
    ELSE LET level == HeadingMarker(lines[i])
             fragments == IF level = <<>> THEN <<>> ELSE Fragments(lines, i + 1)
         IN  IF fragments # <<>>
             THEN HeadingLoop(lines, i + 1 + Len(fragments),
                              Append(result, CollapsedLine(level, fragments)))
             ELSE HeadingLoop(lines, i + 1, Append(result, lines[i]))

\* _postprocess.py:11-61
fix_heading_linebreaks(markdown) ==
    Join(<<"\n">>, HeadingLoop(Split(markdown, "\n"), 1, <<>>))

\* the lines texts are made of
HeadingLines ==
    { <<>>, <<" ">>,
      <<"#">>, <<"#", "#">>, <<"#", " ">>, <<" ", "#">>,
      <<"#", "#", "#", "#", "#", "#", "#">>,
      <<"#", " ", "a">>,
      <<"a">>, <<" ", "b", " ">>,
      <<"a", " ", "b", " ", "c">>,
      <<"a", " ", "b", " ", "c", " ", "d">>,
      <<"-", " ", "a">>, <<">">>, <<Backtick, Backtick, Backtick>> }

HeadingTexts == { Join(<<"\n">>, ls) : ls \in SeqUpTo(HeadingLines, MaxLines) \ {<<>>} }

\* _postprocess.py:69  the most characters TEXT has after its first
MaxTextTail == 60

\* the smallest index >= from of a character that is not white space,
\* Len(md) + 1 if there is none
RECURSIVE SkipSpace(_, _)
SkipSpace(md, from) ==
    IF from <= Len(md) /\ IsSpace(md[from]) THEN SkipSpace(md, from + 1) ELSE from

RECURSIVE SkipDigits(_, _)
SkipDigits(md, from) ==
    IF from <= Len(md) /\ IsDigit(md[from]) THEN SkipDigits(md, from + 1) ELSE from

\* _postprocess.py:69  ([\w][^\[\]]{0,60}?)\s*\[(\d+)\]\s*\1  tried at
\* position i with a TEXT of n characters
DupMatchOf(md, i, n) ==
    LET text == SubSeq(md, i, i + n - 1)
        open == SkipSpace(md, i + n)
        close == SkipDigits(md, open + 1)
        again == SkipSpace(md, close + 1)
        ok == /\ i + n - 1 <= Len(md)
              /\ IsWord(md[i])
              /\ \A k \in DOMAIN text : text[k] \notin {"[", "]"}
              /\ open <= Len(md) /\ md[open] = "["
              /\ close > open + 1
              /\ close <= Len(md) /\ md[close] = "]"
              /\ again + n - 1 <= Len(md)
              /\ SubSeq(md, again, again + n - 1) = text
    IN  [ok |-> ok,
         text |-> IF ok THEN text ELSE <<>>,
         num |-> IF ok THEN SubSeq(md, open + 1, close - 1) ELSE <<>>,
         end |-> again + n - 1]

\* the match at position i: the TEXT is lazy, the shortest one that matches
DupMatch(md, i) ==
    LET lens == { n \in 1..(1 + MaxTextTail) : n <= Len(md) /\ DupMatchOf(md, i, n).ok }
    IN  IF lens = {} THEN [ok |-> FALSE]
        ELSE DupMatchOf(md, i, CHOOSE n \in lens : \A k \in lens : n <= k)

RECURSIVE DupSub(_, _, _)
\* re.sub(pattern, r"\1[\2]", markdown)
DupSub(md, i, out) ==
    IF i > Len(md) THEN out
    ELSE LET mt == DupMatch(md, i)
         IN  IF mt.ok
             THEN DupSub(md, mt.end + 1, out \o mt.text \o <<"[">> \o mt.num \o <<"]">>)
             ELSE DupSub(md, i + 1, Append(out, md[i]))

\* _postprocess.py:64-70
fix_citation_duplication(markdown) == DupSub(markdown, 1, <<>>)

\* _postprocess.py:75-76  !\[\]\([^)]+\)\s*  when image, else
\* (?<!!)\[\]\([^)]+\)\s*  tried at position i: the index after the match, 0
\* if there is none
EmptyLinkEnd(md, i, image) ==
    LET b == IF image THEN i + 1 ELSE i
        close == IndexFrom(md, b + 3, ")")
    IN  IF /\ (IF image THEN md[i] = "!" ELSE (i = 1 \/ md[i - 1] # "!"))
           /\ b + 2 <= Len(md)
           /\ md[b] = "[" /\ md[b + 1] = "]" /\ md[b + 2] = "("
           /\ close > b + 3
        THEN SkipSpace(md, close + 1)
        ELSE 0

RECURSIVE EmptyLinkSub(_, _, _, _)
\* re.sub(pattern, "", markdown)
EmptyLinkSub(md, i, image, out) ==
    IF i > Len(md) THEN out
    ELSE LET e == EmptyLinkEnd(md, i, image)
         IN  IF e # 0 THEN EmptyLinkSub(md, e, image, out)
             ELSE EmptyLinkSub(md, i + 1, image, Append(out, md[i]))

\* _postprocess.py:73-77
strip_empty_image_links(markdown) ==
    EmptyLinkSub(EmptyLinkSub(markdown, 1, TRUE, <<>>), 1, FALSE, <<>>)

RECURSIVE SkipNewlines(_, _)
SkipNewlines(md, from) ==
    IF from <= Len(md) /\ md[from] = "\n" THEN SkipNewlines(md, from + 1) ELSE from

RECURSIVE BlankSub(_, _, _)
\* re.sub(r"\n{4,}", "\n\n\n", markdown)
BlankSub(md, i, out) ==
    IF i > Len(md) THEN out
    ELSE LET e == SkipNewlines(md, i)
         IN  IF e - i >= 4 THEN BlankSub(md, e, out \o <<"\n", "\n", "\n">>)
             ELSE BlankSub(md, i + 1, Append(out, md[i]))

\* _postprocess.py:80-82
collapse_blank_lines(markdown) == BlankSub(markdown, 1, <<>>)

\* the chunks the texts of each pass are made of
DupChunks == { <<"a">>, <<"b">>, <<" ">>, <<"[", "1", "]">>, <<"[", "2", "]">>, <<"[">> }
EmptyLinkChunks == { <<"!">>, <<"[", "]">>, <<"(", "x", ")">>, <<" ">>, <<"a">> }
BlankChunks == { <<"\n">>, <<"\n", "\n">>, <<"a">> }

ChunkTexts(chunks) == { Flatten(cs) : cs \in SeqUpTo(chunks, MaxChunks) }

Passes ==
    {"fix_heading_linebreaks", "fix_citation_duplication", "strip_empty_image_links", "collapse_blank_lines"}

\* the pass named f applied to x
Pass(f, x) ==
    CASE f = "fix_heading_linebreaks" -> fix_heading_linebreaks(x)
      [] f = "fix_citation_duplication" -> fix_citation_duplication(x)
      [] f = "strip_empty_image_links" -> strip_empty_image_links(x)
      [] f = "collapse_blank_lines" -> collapse_blank_lines(x)

InitPost ==
    /\ MachineOff
    /\ ret = Pending
    /\ \/ fn = "fix_heading_linebreaks" /\ arg \in HeadingTexts
       \/ fn = "fix_citation_duplication" /\ arg \in ChunkTexts(DupChunks)
       \/ fn = "strip_empty_image_links" /\ arg \in ChunkTexts(EmptyLinkChunks)
       \/ fn = "collapse_blank_lines" /\ arg \in ChunkTexts(BlankChunks)

\* y = p(x)
ApplyPass ==
    /\ fn \in Passes
    /\ Return(Pass(fn, arg))

\* the pass is applied again, to the text it returned: twice = p(y)
ApplyPassAgain ==
    /\ fn \in Passes /\ ret.done /\ "twice" \notin DOMAIN ret
    /\ ret' = [done |-> TRUE, val |-> ret.val, twice |-> Pass(fn, ret.val)]
    /\ UNCHANGED <<machine, calls, static, fn, arg>>

NextPost == ApplyPass \/ ApplyPassAgain

SpecPost == InitPost /\ [][NextPost]_vars

\* ------------------------------------------------------------ properties
\* deep_crawl has executed line 37: results exists
ResultsAssigned ==
    /\ scope = "crawl"
    /\ pc \in {"loop", "link_wait", "crawl_return", "aexit_context", "aexit_browser", "aexit_playwright", "done"}
    /\ fetchLog # <<>> /\ fetchLog[1].out.kind = "result"

\* deep_crawl has returned its list
CrawlReturned == scope = "crawl" /\ outcome \in {"returning", "returned"}

\* the candidate links no fetch was attempted for
Unattempted ==
    { k \in DOMAIN discovered :
        \A j \in DOMAIN fetchLog : _normalize_url(fetchLog[j].url) # _normalize_url(discovered[k]) }

\* C1: at every point of deep_crawl and for the list it returns,
\* len(results) <= max_pages, whatever max_pages is.
C1_BudgetInvariant == ResultsAssigned => Len(results) <= max_pages

\* C2: results[0] is the FetchResult of the seed URL, whatever its status,
\* from the moment results exists until deep_crawl has returned.
C2_SeedFirst ==
    ResultsAssigned =>
        /\ Len(results) >= 1
        /\ origin[1] = 1
        /\ fetchLog[1].url = start_url
        /\ results[1] = fetchLog[1].out

C2_Witness ==
    /\ CrawlReturned /\ pc = "done"
    /\ Len(results) = 2
    /\ results[1].status >= 400

\* C3: no two fetch attempts of one crawl have the same NormalizedUrl; when a
\* candidate link is fetched its NormalizedUrl and the seed's are in visited;
\* no two entries of results come from links with the same NormalizedUrl.
C3_DedupIdentity ==
    scope = "crawl" =>
        /\ \A i, j \in DOMAIN fetchLog :
              i # j => _normalize_url(fetchLog[i].url) # _normalize_url(fetchLog[j].url)
        /\ \A j \in DOMAIN fetchLog :
              j >= 2 => /\ _normalize_url(start_url) \in visited
                        /\ _normalize_url(fetchLog[j].url) \in visited
        /\ \A i, j \in DOMAIN results :
              i # j => _normalize_url(fetchLog[origin[i]].url) # _normalize_url(fetchLog[origin[j]].url)

C3_Witness ==
    /\ CrawlReturned /\ pc = "done"
    /\ Len(discovered) = 2
    /\ _normalize_url(discovered[1]) = _normalize_url(start_url)
    /\ Len(results) < max_pages
    /\ Len(fetchLog) = 2
    /\ fetchLog[2].url = discovered[2]

\* the position of a fetched link in the candidate list
PosIn(list, u) == CHOOSE k \in DOMAIN list : list[k] = u

\* C4: once the seed fetch has returned, the failure of a link's fetch never
\* makes deep_crawl raise; no failed fetch contributes to results; the links
\* are attempted in list order; and deep_crawl returns only when the budget
\* is exhausted or every candidate has been attempted.
C4_PartialFailure ==
    ResultsAssigned =>
        /\ outcome \notin {"raising", "raised"}
        /\ \A i \in DOMAIN results : fetchLog[origin[i]].out.kind # "exc"
        /\ \A i, j \in DOMAIN fetchLog :
              (2 <= i /\ i < j) =>
                  /\ fetchLog[i].url \in Range(discovered)
                  /\ fetchLog[j].url \in Range(discovered)
                  /\ PosIn(discovered, fetchLog[i].url) < PosIn(discovered, fetchLog[j].url)
        /\ CrawlReturned => (Len(results) >= max_pages \/ Unattempted = {})

C4_Witness ==
    /\ CrawlReturned /\ pc = "done"
    /\ Len(fetchLog) = 3
    /\ fetchLog[2].out.kind = "exc"
    /\ fetchLog[3].out.kind = "result"
    /\ Len(results) = 2 /\ origin[2] = 3

\* C5: every entry of results after the first is the value a fetch returned,
\* with a status below 400; no link fetch with status >= 400 is in results.
C5_OnlyGoodStatus ==
    ResultsAssigned =>
        /\ \A i \in DOMAIN results :
              i >= 2 => /\ origin[i] >= 2
                        /\ results[i] = fetchLog[origin[i]].out
                        /\ results[i].kind = "result"
                        /\ results[i].status < 400
        /\ \A j \in DOMAIN fetchLog :
              (j >= 2 /\ fetchLog[j].out.kind = "result" /\ fetchLog[j].out.status >= 400)
                  => j \notin Range(origin)

C5_Witness ==
    /\ CrawlReturned /\ pc = "done"
    /\ Len(fetchLog) = 3
    /\ fetchLog[2].out.kind = "result" /\ fetchLog[2].out.status >= 400
    /\ Len(results) = 2 /\ origin[2] = 3

\* C6: once len(results) equals max_pages, no step issues another fetch.
C6_BudgetStops ==
    [][(ResultsAssigned /\ Len(results) = max_pages) => Len(fetchLog') = Len(fetchLog)]_vars

C6_Witness ==
    /\ CrawlReturned /\ pc = "done"
    /\ Len(results) = max_pages
    /\ Unattempted # {}

\* C7: every URL fetched in a crawl is the seed URL (the first fetch) or one
\* of the links extracted from the seed page's HTML and kept by the glob
\* filter; the links of the other pages are never fetched.
C7_OneHop ==
    scope = "crawl" =>
        \A j \in DOMAIN fetchLog :
            IF j = 1 THEN fetchLog[j].url = start_url
            ELSE /\ fetchLog[1].out.kind = "result"
                 /\ fetchLog[j].url \in Range(Candidates(fetchLog[1].out.html, start_url, url_pattern))

C7_Witness ==
    /\ CrawlReturned /\ pc = "done"
    /\ Len(results) = 2 /\ Len(results) < max_pages
    /\ results[2].html # <<>>
    /\ Unattempted = {}

\* C8: a page handle is open only between new_page and the finally clause of
\* the fetch that created it: none is open when fetch has returned or raised,
\* and none is left open when the scope ends.
C8_PageReleased ==
    /\ openPages \in {0, 1}
    /\ fpc \notin {"body", "finally"} => openPages = 0

C8_Witness ==
    /\ fpc = "raised"
    /\ fexit \in {"goto", "wait_for_selector", "content", "screenshot", "pdf"}
    /\ openPages = 0

\* C9: when the scope that entered the with block of a BrowserSession has
\* exited, by return or by an exception of the fetch or the crawl, the
\* context and the engine are both closed.
C9_SessionReleased ==
    (pc = "done" /\ fetchLog # <<>>) =>
        /\ outcome \in {"returned", "raised"}
        /\ _context = "closed"
        /\ _browser = "closed"

C9_Witness ==
    /\ pc = "done" /\ scope = "crawl"
    /\ outcome = "raised"
    /\ fetchLog # <<>>
    /\ _context = "closed" /\ _browser = "closed"

\* C10: when opening the session fails part-way, the error reaches the caller
\* and nothing that was acquired stays alive.
C10_PartialOpenCleanup ==
    (pc = "done" /\ outcome = "raised" /\ fetchLog = <<>>) =>
        /\ _playwright # "open"
        /\ _browser # "open"


\* C11: a fetch on a session that is not open (never opened, or closed) fails
\* at once, without navigating and without acquiring a page handle, and a
\* closed session never becomes open again.
C11_Lifecycle ==
    [][ /\ (fpc = "new_page" /\ _context # "open") => (fpc' = "raised" /\ openPages' = openPages)
        /\ (_context = "closed" => _context' # "open") ]_vars

\* C12: __aexit__ closes the context, then the browser, then stops the
\* driver: the browser is closed only when the context is no longer open and
\* the driver still runs, the driver is stopped only when neither is open.
C12_TeardownOrder ==
    [][ /\ (_browser # "closed" /\ _browser' = "closed") => (_context # "open" /\ _playwright = "open")
        /\ (_playwright # "closed" /\ _playwright' = "closed") => (_context # "open" /\ _browser # "open") ]_vars

C12_Witness ==
    /\ pc = "done" /\ fetchLog # <<>>
    /\ _context = "closed" /\ _browser = "closed" /\ _playwright = "closed"

\* C13: in the static path of _fetch_single the first fetch verifies
\* certificates; a second fetch, without verification, is made exactly when
\* the first failed on certificate validation, after the warning was printed;
\* there is never a third; every other failure, and a failure of the retry,
\* is raised to the caller.
C13_CertRetry ==
    scope = "static" =>
        /\ Len(attempts) <= 2
        /\ Len(attempts) >= 1 => attempts[1].verify_ssl
        /\ Len(attempts) = 2 =>
              /\ attempts[1].out.kind = "exc"
              /\ attempts[1].out.exc.type = "ConnectError" /\ attempts[1].out.exc.cert
              /\ ~attempts[2].verify_ssl
              /\ Len(console) = 1 /\ console[1].after = 1
        /\ Len(attempts) < 2 => (console # <<>> => pc = "static_retry_call")
        /\ pc = "done" =>
              /\ (attempts[1].out.kind = "exc" /\ attempts[1].out.exc.cert) => Len(attempts) = 2
              /\ outcome = (IF attempts[Len(attempts)].out.kind = "result" THEN "returned" ELSE "raised")

C13_Witness ==
    /\ scope = "static" /\ pc = "done"
    /\ Len(attempts) = 2
    /\ attempts[2].out.kind = "exc"
    /\ outcome = "raised"


\* the anchors whose href does not start with "#", "javascript:", "mailto:" or "tel:"
Followable(html) == { i \in DOMAIN html : html[i].kind \notin {"frag", "javascript", "mailto", "tel"} }

FirstOfItsUrl(acc) ==
    { i \in DOMAIN acc : \A j \in 1..(i - 1) : _normalize_url(acc[j]) # _normalize_url(acc[i]) }

\* C15: the list _extract_links returns has no two entries with the same
\* NormalizedUrl and is the accepted anchors, in document order, with every
\* anchor dropped whose NormalizedUrl an earlier accepted anchor has.
C15_ExtractDedup ==
    (fn = "_extract_links" /\ ret.done) =>
        LET acc == AcceptedLinks(arg.html, arg.base_url, arg.base_domain)
            keep == FirstOfItsUrl(acc)
        IN  /\ \A i, j \in DOMAIN ret.val :
                  i # j => _normalize_url(ret.val[i]) # _normalize_url(ret.val[j])
            /\ Len(ret.val) = Cardinality(keep)
            /\ \A k \in DOMAIN ret.val :
                  \E i \in keep : /\ Cardinality({ j \in keep : j <= i }) = k
                                  /\ ret.val[k] = acc[i]

C15_Witness ==
    /\ fn = "_extract_links" /\ ret.done
    /\ arg.base_domain = "ex"
    /\ Len(arg.html) = 3
    /\ arg.html[1].url.path = <<"/", "page">> /\ arg.html[1].kind = "rel"
    /\ arg.html[2] = arg.html[1]
    /\ arg.html[3].url.path = <<"/", "page", "/">>
    /\ ret.val = <<Ex(<<"/", "page">>, "")>>

\* the path without its trailing slashes: the longest prefix that does not
\* end in "/", the rest being slashes only
Stripped(p) ==
    CHOOSE q \in { SubSeq(p, 1, n) : n \in 0..Len(p) } :
        /\ q = <<>> \/ q[Len(q)] # "/"
        /\ \A k \in (Len(q) + 1)..Len(p) : p[k] = "/"

\* C16: the NormalizedUrl is scheme, "://", host and the path without its
\* trailing slash ("/" when nothing is left), without query and fragment; and
\* two URLs have the same NormalizedUrl exactly when scheme, host and
\* stripped path agree.
C16_NormalizedUrl ==
    (fn = "_normalize_url" /\ ret.done) =>
        LET Form(u) == <<u.scheme, "://", u.netloc>>
                           \o (IF Stripped(u.path) = <<>> THEN <<"/">> ELSE Stripped(u.path))
        IN  /\ ret.val[1] = Form(arg.u)
            /\ ret.val[2] = Form(arg.v)
            /\ (ret.val[1] = ret.val[2]) <=>
                  /\ arg.u.scheme = arg.v.scheme
                  /\ arg.u.netloc = arg.v.netloc
                  /\ Stripped(arg.u.path) = Stripped(arg.v.path)

C16_Witness ==
    /\ fn = "_normalize_url" /\ ret.done
    /\ arg.u.path = <<"/", "a", "/">> /\ arg.u.fragment = "f"
    /\ arg.v.path = <<"/", "a">> /\ arg.v.query = "q"
    /\ arg.u.scheme = arg.v.scheme /\ arg.u.netloc = arg.v.netloc
    /\ ret.val[1] = ret.val[2]


\* the number of places where the tokens sub occur in md
Occurrences(md, sub) ==
    Cardinality({ i \in 1..(Len(md) - Len(sub) + 1) : SubSeq(md, i, i + Len(sub) - 1) = sub })

\* the urls of marks, each once, in order of first occurrence
RECURSIVE DistinctUrls(_, _)
DistinctUrls(marks, seen) ==
    IF marks = <<>> THEN <<>>
    ELSE IF Head(marks).url \in seen THEN DistinctUrls(Tail(marks), seen)
         ELSE <<Head(marks).url>> \o DistinctUrls(Tail(marks), seen \cup {Head(marks).url})

\* C17: the n distinct link targets get the numbers 1..n in order of first
\* occurrence, every occurrence of a target carries its number, and the
\* references block is one "[N] URL" line per target, N increasing from 1.
C17_Numbering ==
    (fn = "add_citations" /\ ret.done) =>
        LET marks == ret.val.marks
            targets == DistinctUrls(marks, {})
        IN  /\ \A p \in DOMAIN marks : marks[p].num \in 1..Len(targets)
            /\ \A p \in DOMAIN marks : targets[marks[p].num] = marks[p].url
            /\ IF marks = <<>> THEN ret.val.references = <<>> /\ ret.val.cited = arg
               ELSE ret.val.references =
                        <<"\n", "## References", "\n">>
                            \o Flatten([n \in 1..Len(targets) |->
                                           <<"\n", "[">> \o Str(n) \o <<"]", " ">> \o targets[n]])

C17_Witness ==
    /\ fn = "add_citations" /\ ret.done
    /\ Len(ret.val.marks) = 3
    /\ ret.val.marks[1] = [url |-> <<"u">>, num |-> 1]
    /\ ret.val.marks[2] = [url |-> <<"v">>, num |-> 2]
    /\ ret.val.marks[3] = [url |-> <<"u">>, num |-> 1]
    /\ ret.val.references = <<"\n", "## References", "\n", "\n", "[", "1", "]", " ", "u", "\n", "[", "2", "]", " ", "v">>

\* C18: add_citations applied to the cited text of add_citations returns it
\* unchanged, with an empty references block.
C18_Stable ==
    fn = "add_citations again" => (ret.val.cited = arg /\ ret.val.references = <<>>)

\* C19: every image of the input is in the cited text unchanged, and the
\* image's URL gets a number only if a link that is not an image has it as
\* its target.
C19_ImagesKept ==
    (fn = "add_citations" /\ ret.done) =>
        /\ Occurrences(ret.val.cited, ImagePiece) = Occurrences(arg, ImagePiece)
        /\ (\E p \in DOMAIN ret.val.marks : ret.val.marks[p].url = <<"i">>)
              => Occurrences(arg, ImageLinkPiece) > 0


\* C20: after the sort-by-date step of a list of two or more results, the
\* dated results are in descending order of date and every result with no
\* date comes after every dated one.
C20_UndatedLast ==
    (fn = "sort_by_date" /\ ret.done /\ Len(arg) >= 2) =>
        \A i, j \in DOMAIN ret.val :
            i < j => /\ (ret.val[i].date # None /\ ret.val[j].date # None)
                          => ~TupleLess(ret.val[i].date, ret.val[j].date)
                     /\ ret.val[i].date = None => ret.val[j].date = None


\* C21: the sort-by-date step is stable: two results of equal date, and two
\* results with no date, stay in the order they had in the list, whatever
\* their urls are.
C21_Stable ==
    (fn = "sort_by_date" /\ ret.done) =>
        \A i, j \in DOMAIN ret.val :
            (i < j /\ ret.val[i].date = ret.val[j].date) => ret.val[i].n < ret.val[j].n


\* the fingerprint of the converted Markdown of a crawl result
FingerprintOf(r) == xxh64(html_to_markdown(r, ~arg.raw))

\* C22: after dedup the list is the subsequence of the crawl results that
\* keeps exactly the results having no earlier result of the same
\* fingerprint, in the original order; no two kept results share a
\* fingerprint, and a result whose fingerprint is unique is kept.
C22_Dedup ==
    (fn = "_run_deep_crawl" /\ arg.dedupe /\ ret.stage = "sort") =>
        LET rs == arg.results
            kept == ret.results
            first(i) == \A j \in 1..(i - 1) : FingerprintOf(rs[j]) # FingerprintOf(rs[i])
        IN  /\ \A k \in DOMAIN kept : kept[k] = rs[kept[k].n] /\ first(kept[k].n)
            /\ \A k, l \in DOMAIN kept : k < l => kept[k].n < kept[l].n
            /\ \A i \in DOMAIN rs : first(i) => \E k \in DOMAIN kept : kept[k].n = i
            /\ \A k, l \in DOMAIN kept : k # l => FingerprintOf(kept[k]) # FingerprintOf(kept[l])

C22_Witness ==
    /\ fn = "_run_deep_crawl" /\ arg.dedupe /\ ret.stage = "sort"
    /\ Len(arg.results) = 3 /\ Len(ret.results) = 2
    /\ ret.results[2].n = 3

\* C23: when a limit N >= 0 is requested, the list that is processed is the first
\* N entries (all of them when there are fewer) of the list that dedup
\* followed by sort-by-date produced, so it has at most N entries.
C23_LimitLast ==
    (fn = "_run_deep_crawl" /\ ret.stage = "process" /\ arg.limit # <<>> /\ arg.limit[1] >= 0) =>
        LET N == arg.limit[1]
        IN  /\ Len(ret.results) <= N
            /\ ret.results = SubSeq(ret.ordered, 1, IF N < Len(ret.ordered) THEN N ELSE Len(ret.ordered))


\* the pass fn has been applied twice
AppliedTwice(f) == fn = f /\ ret.done /\ "twice" \in DOMAIN ret

\* C24: fix_heading_linebreaks applied to its own result returns it unchanged.
C24_HeadingIdempotent ==
    AppliedTwice("fix_heading_linebreaks") => ret.twice = ret.val

C24_Witness ==
    /\ AppliedTwice("fix_heading_linebreaks")
    /\ arg = <<"#", "\n", "#", "#", "\n", "a">>
    /\ ret.val = <<"#", "\n", "#", "#", " ", "a">>

\* C25: citation-duplication repair, empty-link stripping and blank-line
\* collapsing each return their own result unchanged.
C25_PassesIdempotent ==
    \A f \in {"fix_citation_duplication", "strip_empty_image_links", "collapse_blank_lines"} :
        AppliedTwice(f) => ret.twice = ret.val


\* the places of the markers [N] of md, as <<index of "[", index of "]">>
Markers(md) ==
    { <<o, c>> \in (DOMAIN md) \X (DOMAIN md) :
        /\ md[o] = "[" /\ md[c] = "]" /\ c > o + 1
        /\ \A k \in (o + 1)..(c - 1) : IsDigit(md[k]) }

\* the text before the marker at o: what lies between the last bracket
\* before o and o, without the white space around it
TextBefore(md, o) ==
    LET brackets == { k \in 1..(o - 1) : md[k] \in {"[", "]"} }
        from == IF brackets = {} THEN 1 ELSE (CHOOSE k \in brackets : \A l \in brackets : l <= k) + 1
    IN  Strip(SubSeq(md, from, o - 1))

\* the whole text before the marker is repeated right after it
RepeatedAt(md, mk) ==
    LET text == TextBefore(md, mk[1])
        after == SkipSpace(md, mk[2] + 1)
    IN  /\ text # <<>>
        /\ after + Len(text) - 1 <= Len(md)
        /\ SubSeq(md, after, after + Len(text) - 1) = text

\* C26: citation-duplication repair returns the text unchanged unless the
\* whole text before some marker [N] is repeated identically right after it.
C26_OnlyRepeats ==
    (fn = "fix_citation_duplication" /\ ret.done) =>
        ((\A mk \in Markers(arg) : ~RepeatedAt(arg, mk)) => ret.val = arg)

\* a line of 1 to 6 "#", white space after them allowed
IsMarkerLine(line) ==
    \E n \in 1..6 :
        /\ n <= Len(line)
        /\ \A k \in DOMAIN line : IF k <= n THEN line[k] = "#" ELSE IsSpace(line[k])

\* a fragment line: not blank, at most 3 words, and, without the white space
\* around it, not starting like a structural line
Eligible(line) ==
    LET t == Strip(line)
    IN  /\ t # <<>>
        /\ WordCount(t) <= 3
        /\ t[1] \notin {"#", "-", "*", "[", "|", ">"}
        /\ ~(Len(t) >= 3 /\ t[1] = Backtick /\ t[2] = Backtick /\ t[3] = Backtick)

\* the number of eligible lines that follow line i without a break
RunAfter(lines, i) ==
    Cardinality({ k \in (i + 1)..Len(lines) : \A l \in (i + 1)..k : Eligible(lines[l]) })

\* C27: a marker line followed by k >= 1 eligible lines becomes the one line
\* "<marker> f1 ... fk" and these k lines are consumed; every other line,
\* the line that stops the run and a marker with no fragment included, is in
\* the result unchanged, in order.
C27_HeadingRule ==
    (fn = "fix_heading_linebreaks" /\ ret.done) =>
        LET lines == Split(arg, "\n")
            out == Split(ret.val, "\n")
            head(i) == IsMarkerLine(lines[i]) /\ RunAfter(lines, i) >= 1
            consumed(i) == \E h \in 1..(i - 1) : head(h) /\ i <= h + RunAfter(lines, h)
            kept == { i \in DOMAIN lines : ~consumed(i) }
            place(i) == Cardinality({ k \in kept : k <= i })
        IN  /\ Len(out) = Cardinality(kept)
            /\ \A i \in kept :
                  out[place(i)] =
                      IF head(i)
                      THEN RStrip(lines[i]) \o Flatten([k \in 1..RunAfter(lines, i) |->
                                                           <<" ">> \o Strip(lines[i + k])])
                      ELSE lines[i]

C27_Witness ==
    /\ fn = "fix_heading_linebreaks" /\ ret.done
    /\ arg = <<"#", " ", "\n", " ", "b", " ", "\n", "-", " ", "a">>
    /\ ret.val = <<"#", " ", "b", "\n", "-", " ", "a">>


\* C28: an error that is no fetch failure, raised while a candidate link is
\* fetched, reaches the caller: deep_crawl does not return its list after one.
C28_ProgrammingErrorsSurface ==
    CrawlReturned =>
        \A j \in 2..Len(fetchLog) :
            fetchLog[j].out.kind = "exc" => fetchLog[j].out.exc \notin ProgrammingErrors

\* the seed fetch of the crawl has raised
SeedFailed == scope = "crawl" /\ fetchLog # <<>> /\ fetchLog[1].out.kind = "exc" /\ pc # "seed_wait"

\* C29: when the seed fetch raises, no candidate link is fetched, deep_crawl
\* has no list and does not return, the failure reaches the caller, and the
\* session is closed when the with statement has been left.
C29_SeedFatal ==
    SeedFailed =>
        /\ Len(fetchLog) = 1
        /\ results = <<>> /\ discovered = <<>>
        /\ outcome \in {"raising", "raised"}
        /\ pc \in {"aexit_context", "aexit_browser", "aexit_playwright", "done"}
        /\ pc = "done" =>
              /\ outcome = "raised"
              /\ _context = "closed" /\ _browser = "closed" /\ _playwright = "closed"
              /\ openPages = 0

C29_Witness ==
    /\ SeedFailed /\ pc = "done"
    /\ fetchLog[1].out.exc = "TimeoutError"
    /\ _playwright = "closed"


\* C30: the crawl attempts at most 1 + len(discovered) fetches; a link fetch
\* that raised or returned a status >= 400 leaves len(results) as it was; and
\* the crawl comes to its end: once results exists deep_crawl returns, and in
\* every case the scope that runs it is left.
C30_BoundedFetches ==
    /\ [](scope = "crawl" => Len(fetchLog) <= 1 + Len(discovered))
    /\ [][(pc = "link_wait" /\ pc' = "loop" /\ (fout.kind = "exc" \/ ~(fout.status < 400)))
             => results' = results]_vars
    /\ (ResultsAssigned ~> CrawlReturned)
    /\ <>(pc = "done")

C30_Witness ==
    /\ CrawlReturned /\ pc = "done"
    /\ max_pages = MaxPages
    /\ Len(discovered) = 2 /\ Len(fetchLog) = 3
    /\ fetchLog[2].out.kind = "exc"
    /\ fetchLog[3].out.kind = "result" /\ fetchLog[3].out.status >= 400
    /\ Len(results) = 1

====
